---------------------------- MODULE Spec2Model ----------------------------
(***************************************************************************)
(* Model of the date-mirror plugin (src/main.ts): a note's filename and a  *)
(* date-valued frontmatter property are kept in sync by two event          *)
(* handlers, updateFilename ('changed') and updateFrontmatter ('rename').  *)
(*                                                                         *)
(* Strings are sequences of one-character strings, so that the regular     *)
(* expression built by createDatePatternFromFormat, String.replace,        *)
(* moment's format and moment's parsers are computed character by          *)
(* character, as the code and the library compute them.                    *)
(***************************************************************************)
EXTENDS Integers, Sequences, FiniteSets, TLC

(***************************************************************************)
(* Characters and numbers                                                  *)
(***************************************************************************)
Digits == {"0", "1", "2", "3", "4", "5", "6", "7", "8", "9"}

DigitChars == <<"0", "1", "2", "3", "4", "5", "6", "7", "8", "9">>

DigitVal(c) == CHOOSE n \in 0..9 : DigitChars[n + 1] = c

AllDigits(s) == \A i \in 1..Len(s) : s[i] \in Digits

RECURSIVE DecimalValue(_)
DecimalValue(s) ==
    IF s = <<>> THEN 0
    ELSE 10 * DecimalValue(SubSeq(s, 1, Len(s) - 1)) + DigitVal(s[Len(s)])

RECURSIVE ToDigits(_)
ToDigits(n) ==
    IF n < 10 THEN <<DigitChars[n + 1]>>
    ELSE ToDigits(n \div 10) \o <<DigitChars[(n % 10) + 1]>>

RECURSIVE ZeroFill(_, _)
ZeroFill(s, width) == IF Len(s) >= width THEN s ELSE ZeroFill(<<"0">> \o s, width)

StartsWith(s, t) == Len(s) >= Len(t) /\ SubSeq(s, 1, Len(t)) = t

Drop(s, n) == SubSeq(s, n + 1, Len(s))

(***************************************************************************)
(* Calendar                                                                *)
(***************************************************************************)
IsLeap(y) == (y % 4 = 0 /\ y % 100 # 0) \/ y % 400 = 0

DaysInMonth(y, m) ==
    IF m = 2 THEN (IF IsLeap(y) THEN 29 ELSE 28)
    ELSE IF m \in {4, 6, 9, 11} THEN 30 ELSE 31

\* A moment object: a calendar date, or the invalid moment.
InvalidMoment == [valid |-> FALSE, y |-> 0, m |-> 0, d |-> 0]

MkMoment(y, m, d) == [valid |-> TRUE, y |-> y, m |-> m, d |-> d]

\* moment's validity check of parsed fields (month and day-of-month overflow).
CheckedMoment(y, m, d) ==
    IF m \in 1..12 /\ d >= 1 /\ d <= DaysInMonth(y, m)
    THEN MkMoment(y, m, d) ELSE InvalidMoment

\* new Date(ms): the calendar date of a count of milliseconds since the
\* epoch (local time zone taken as UTC).
DateFromEpochMs(ms) ==
    LET z   == (ms \div 86400000) + 719468
        era == z \div 146097
        doe == z - era * 146097
        yoe == (doe - doe \div 1460 + doe \div 36524 - doe \div 146096) \div 365
        doy == doe - (365 * yoe + yoe \div 4 - yoe \div 100)
        mp  == (5 * doy + 2) \div 153
        d   == doy - (153 * mp + 2) \div 5 + 1
        m   == IF mp < 10 THEN mp + 3 ELSE mp - 9
        y   == yoe + era * 400 + (IF m <= 2 THEN 1 ELSE 0)
    IN  MkMoment(y, m, d)

(***************************************************************************)
(* moment: format tokens, format(), strict parse, permissive parse         *)
(***************************************************************************)
TokYYYY == <<"Y", "Y", "Y", "Y">>
TokYY   == <<"Y", "Y">>
TokMM   == <<"M", "M">>
TokM    == <<"M">>
TokDD   == <<"D", "D">>
TokD    == <<"D">>

DateTokens == {TokYYYY, TokYY, TokMM, TokM, TokDD, TokD}

\* moment's formattingTokens split, on the token subset of the plugin:
\* the longest token first, any other character a literal of its own.
RECURSIVE FormatTokens(_)
FormatTokens(format) ==
    IF format = <<>> THEN <<>>
    ELSE LET tok == IF StartsWith(format, TokYYYY) THEN TokYYYY
                    ELSE IF StartsWith(format, TokYY) THEN TokYY
                    ELSE IF StartsWith(format, TokMM) THEN TokMM
                    ELSE IF StartsWith(format, TokM) THEN TokM
                    ELSE IF StartsWith(format, TokDD) THEN TokDD
                    ELSE IF StartsWith(format, TokD) THEN TokD
                    ELSE <<format[1]>>
         IN  <<tok>> \o FormatTokens(Drop(format, Len(tok)))

InvalidDateText == <<"I", "n", "v", "a", "l", "i", "d", " ", "d", "a", "t", "e">>

RenderToken(mo, tok) ==
    IF tok = TokYYYY THEN ZeroFill(ToDigits(mo.y), 4)
    ELSE IF tok = TokYY THEN ZeroFill(ToDigits(mo.y % 100), 2)
    ELSE IF tok = TokMM THEN ZeroFill(ToDigits(mo.m), 2)
    ELSE IF tok = TokM THEN ToDigits(mo.m)
    ELSE IF tok = TokDD THEN ZeroFill(ToDigits(mo.d), 2)
    ELSE IF tok = TokD THEN ToDigits(mo.d)
    ELSE tok

RECURSIVE RenderTokens(_, _)
RenderTokens(mo, toks) ==
    IF toks = <<>> THEN <<>>
    ELSE RenderToken(mo, Head(toks)) \o RenderTokens(mo, Tail(toks))

\* moment.format(format): an invalid moment renders as "Invalid date".
MomentFormat(mo, format) ==
    IF mo.valid THEN RenderTokens(mo, FormatTokens(format)) ELSE InvalidDateText


\* The environment's current date, moment's default for fields the format
\* does not hold.
Today == MkMoment(2026, 11, 3)

Unset == 0 - 1

Least(S) == CHOOSE i \in S : \A j \in S : i <= j

Greatest(S) == CHOOSE i \in S : \A j \in S : i >= j

LeastOrZero(S) == IF S = {} THEN 0 ELSE Least(S)

GreatestOrZero(S) == IF S = {} THEN 0 ELSE Greatest(S)

\* First index of s at which `width` digits stand, or 0.
FirstDigitRun(s, width) ==
    LeastOrZero({i \in 1..(Len(s) - width + 1) : AllDigits(SubSeq(s, i, i + width - 1))})

FirstChar(s, c) == LeastOrZero({i \in 1..Len(s) : s[i] = c})

LastChar(s, c) == GreatestOrZero({i \in 1..Len(s) : s[i] = c})

\* \d\d? at index i of s: two digits when a second one follows.
OneOrTwoDigitsAt(s, i) ==
    [at |-> i, len |-> IF i # 0 /\ i < Len(s) /\ s[i + 1] \in Digits THEN 2 ELSE 1]

\* string.match(getParseRegexForToken(token)) in strict mode: where the
\* token's input starts and how long it is ([at |-> 0] when there is none).
\* YYYY is \d{4}; YY, MM and DD are \d\d; M and D are \d\d?; a literal is itself.
ParsedInput(s, tok) ==
    IF tok = TokYYYY THEN [at |-> FirstDigitRun(s, 4), len |-> 4]
    ELSE IF tok \in {TokYY, TokMM, TokDD} THEN [at |-> FirstDigitRun(s, 2), len |-> 2]
    ELSE IF tok \in {TokM, TokD} THEN OneOrTwoDigitsAt(s, FirstDigitRun(s, 1))
    ELSE [at |-> FirstChar(s, tok[1]), len |-> 1]

\* addTimeToArrayFromToken: the field a date token's input n sets; a
\* two-digit year is 19xx above 68 and 20xx otherwise.
SetField(acc, tok, n) ==
    IF tok = TokYYYY THEN [acc EXCEPT !.y = n]
    ELSE IF tok = TokYY THEN [acc EXCEPT !.y = n + (IF n > 68 THEN 1900 ELSE 2000)]
    ELSE IF tok \in {TokMM, TokM} THEN [acc EXCEPT !.m = n]
    ELSE IF tok \in {TokDD, TokD} THEN [acc EXCEPT !.d = n]
    ELSE acc

\* configFromStringAndFormat's loop over the format's tokens: each token
\* consumes the first input its expression finds in what is left of the
\* string (hit); a token without input is an unused token.
RECURSIVE ParseTokens(_, _, _)
RECURSIVE ParseToken(_, _, _, _)
ParseTokens(toks, s, acc) ==
    IF toks = <<>> THEN acc
    ELSE ParseToken(toks, s, acc, ParsedInput(s, Head(toks)))

ParseToken(toks, s, acc, hit) ==
    IF hit.at = 0
    THEN ParseTokens(Tail(toks), s, [acc EXCEPT !.unused = TRUE])
    ELSE ParseTokens(Tail(toks), Drop(s, hit.at + hit.len - 1),
                     SetField([acc EXCEPT !.parsed = @ + hit.len], Head(toks),
                              DecimalValue(SubSeq(s, hit.at, hit.at + hit.len - 1))))

\* configFromArray: a leading run of missing fields defaults to today's, the
\* rest to January and the 1st; then the overflow check.
DefaultedMoment(acc) ==
    CheckedMoment(IF acc.y = Unset THEN Today.y ELSE acc.y,
                  IF acc.m # Unset THEN acc.m
                  ELSE IF acc.y = Unset THEN Today.m ELSE 1,
                  IF acc.d # Unset THEN acc.d
                  ELSE IF acc.y = Unset /\ acc.m = Unset THEN Today.d ELSE 1)

\* Strict validity: every token found its input and no character of the
\* string is left over.
StrictResult(s, acc) ==
    IF acc.unused \/ acc.parsed # Len(s) THEN InvalidMoment ELSE DefaultedMoment(acc)

\* moment(string, format, true)
MomentStrict(s, format) ==
    StrictResult(s, ParseTokens(FormatTokens(format), s,
                                [y |-> Unset, m |-> Unset, d |-> Unset,
                                 parsed |-> 0, unused |-> FALSE]))

(***************************************************************************)
(* Frontmatter values: absent, a string, or a number (YAML scalars).       *)
(***************************************************************************)
Absent == [k |-> "absent", s |-> <<>>, n |-> 0]

StrVal(s) == [k |-> "str", s |-> s, n |-> 0]

IntVal(n) == [k |-> "int", s |-> <<>>, n |-> n]

\* JavaScript truthiness of a frontmatter value.
Truthy(v) ==
    \/ v.k = "str" /\ v.s # <<>>
    \/ v.k = "int" /\ v.n # 0

\* The three numbers of p-q-r, or <<>> when one of them is no number.
ThreeNumbers(p, q, r) ==
    IF \A x \in {p, q, r} : x # <<>> /\ AllDigits(x)
    THEN <<DecimalValue(p), DecimalValue(q), DecimalValue(r)>>
    ELSE <<>>

SplitAtDashes(s, a, b) ==
    ThreeNumbers(SubSeq(s, 1, a - 1), SubSeq(s, a + 1, b - 1), SubSeq(s, b + 1, Len(s)))

\* The numbers a string of the shape n-n-n holds (<<>> for any other shape).
DashFields(s) ==
    IF Cardinality({i \in 1..Len(s) : s[i] = "-"}) # 2 THEN <<>>
    ELSE SplitAtDashes(s, FirstChar(s, "-"), LastChar(s, "-"))

\* A two-digit year is 20xx up to 49 and 19xx from 50; a day past the
\* month's end rolls over into the next month.
LegacyDay(yr, mon, day) ==
    IF ~(mon \in 1..12) \/ ~(day \in 1..31) THEN InvalidMoment
    ELSE IF day > DaysInMonth(yr, mon)
    THEN MkMoment(yr, mon + 1, day - DaysInMonth(yr, mon))
    ELSE MkMoment(yr, mon, day)

LegacyYear(yr) ==
    IF yr \in 0..49 THEN yr + 2000 ELSE IF yr \in 50..99 THEN yr + 1900 ELSE yr

\* Three numbers are year-month-day when the first cannot be a day, and
\* month-day-year otherwise.
LegacyFields(c) ==
    IF c = <<>> THEN InvalidMoment
    ELSE IF ~(c[1] \in 1..31) THEN LegacyDay(LegacyYear(c[1]), c[2], c[3])
    ELSE LegacyDay(LegacyYear(c[3]), c[1], c[2])

\* new Date(string) for a string that is not ISO 8601: implementation-defined.
\* "legacy" is V8's legacy parser (Obsidian desktop); "none" is an engine that
\* rejects every such string.
NativeDate(s, eng) ==
    IF eng = "legacy" THEN LegacyFields(DashFields(s)) ELSE InvalidMoment

\* The ISO 8601 calendar-date shapes of moment's configFromISO: YYYY-MM-DD and
\* YYYYMMDD (week, ordinal and time-of-day shapes are not in the model's values).
IsoExtended(s) ==
    /\ Len(s) = 10 /\ s[5] = "-" /\ s[8] = "-"
    /\ AllDigits(SubSeq(s, 1, 4)) /\ AllDigits(SubSeq(s, 6, 7)) /\ AllDigits(SubSeq(s, 9, 10))

IsoBasic(s) == Len(s) = 8 /\ AllDigits(s)

\* window.moment(date): a number is milliseconds since the epoch; a string is
\* parsed as ISO 8601 and otherwise handed to new Date(string).
MomentPermissive(v, eng) ==
    IF v.k = "int" THEN DateFromEpochMs(v.n)
    ELSE IF IsoExtended(v.s)
    THEN CheckedMoment(DecimalValue(SubSeq(v.s, 1, 4)), DecimalValue(SubSeq(v.s, 6, 7)),
                       DecimalValue(SubSeq(v.s, 9, 10)))
    ELSE IF IsoBasic(v.s)
    THEN CheckedMoment(DecimalValue(SubSeq(v.s, 1, 4)), DecimalValue(SubSeq(v.s, 5, 6)),
                       DecimalValue(SubSeq(v.s, 7, 8)))
    ELSE NativeDate(v.s, eng)

(***************************************************************************)
(* Regular expressions: the source text createDatePatternFromFormat builds *)
(* and JavaScript's leftmost, greedy, backtracking match of it.            *)
(***************************************************************************)
Backslash == "\\"

RegexSpecial == {".", "*", "+", "?", "^", "$", "{", "}", "(", ")", "|", "[", "]", Backslash}

\* format.replace(/[.*+?^${}()|[\]\\]/g, '\\$&')
RECURSIVE EscapeRegex(_)
EscapeRegex(s) ==
    IF s = <<>> THEN <<>>
    ELSE (IF s[1] \in RegexSpecial THEN <<Backslash, s[1]>> ELSE <<s[1]>>)
         \o EscapeRegex(Tail(s))

\* s.replace(/tok/g, rep): every occurrence, left to right, not overlapping.
RECURSIVE ReplaceAll(_, _, _)
ReplaceAll(s, tok, rep) ==
    IF Len(s) < Len(tok) THEN s
    ELSE IF StartsWith(s, tok) THEN rep \o ReplaceAll(Drop(s, Len(tok)), tok, rep)
    ELSE <<s[1]>> \o ReplaceAll(Tail(s), tok, rep)

Digits4  == <<Backslash, "d", "{", "4", "}">>
Digits2  == <<Backslash, "d", "{", "2", "}">>
Digits12 == <<Backslash, "d", "{", "1", ",", "2", "}">>

\* The 4-digit year compiled as two digits.
createDatePatternFromFormat_shortYear(format) ==
    ReplaceAll(ReplaceAll(ReplaceAll(ReplaceAll(ReplaceAll(ReplaceAll(
        EscapeRegex(format),
        TokYYYY, Digits2), TokYY, Digits2), TokMM, Digits2), TokM, Digits12),
        TokDD, Digits2), TokD, Digits12)

\* createDatePatternFromFormat: the source of the regular expression.
createDatePatternFromFormat(format) ==
    ReplaceAll(ReplaceAll(ReplaceAll(ReplaceAll(ReplaceAll(ReplaceAll(
        EscapeRegex(format),
        TokYYYY, Digits4), TokYY, Digits2), TokMM, Digits2), TokM, Digits12),
        TokDD, Digits2), TokD, Digits12)

DigitRun(lo, hi) == [digit |-> TRUE, c |-> "", min |-> lo, max |-> hi]

Literal(c) == [digit |-> FALSE, c |-> c, min |-> 1, max |-> 1]

\* The quantifier {n} or {m,n}, from its text between the braces.
Quantified(body, comma) ==
    IF comma = 0 THEN DigitRun(DecimalValue(body), DecimalValue(body))
    ELSE DigitRun(DecimalValue(SubSeq(body, 1, comma - 1)),
                  DecimalValue(SubSeq(body, comma + 1, Len(body))))

QuantifierBody(body) == Quantified(body, FirstChar(body, ","))

\* new RegExp(source): the atoms of the source. \d{n} and \d{m,n} are digit
\* runs, \c is the character c, any other character is itself.
RECURSIVE RegexAtoms(_)
RECURSIVE QuantifiedAtoms(_, _)
RegexAtoms(src) ==
    IF src = <<>> THEN <<>>
    ELSE IF src[1] = Backslash /\ Len(src) >= 2 THEN
        IF src[2] = "d" THEN
            IF Len(src) >= 3 /\ src[3] = "{"
            THEN QuantifiedAtoms(src, FirstChar(src, "}"))
            ELSE <<DigitRun(1, 1)>> \o RegexAtoms(Drop(src, 2))
        ELSE <<Literal(src[2])>> \o RegexAtoms(Drop(src, 2))
    ELSE <<Literal(src[1])>> \o RegexAtoms(Tail(src))

QuantifiedAtoms(src, close) ==
    <<QuantifierBody(SubSeq(src, 4, close - 1))>> \o RegexAtoms(Drop(src, close))

\* The match of atoms k.. at position pos: the position after the match, or 0.
\* A digit run takes as many digits as it may and gives one back at a time
\* when the rest of the pattern fails (e is the attempt with n digits).
RECURSIVE MatchEnd(_, _, _, _)
RECURSIVE MatchDigits(_, _, _, _, _)
RECURSIVE Backtrack(_, _, _, _, _, _)
MatchEnd(atoms, s, k, pos) ==
    IF k > Len(atoms) THEN pos
    ELSE IF atoms[k].digit THEN MatchDigits(atoms, s, k, pos, atoms[k].max)
    ELSE IF pos <= Len(s) /\ s[pos] = atoms[k].c THEN MatchEnd(atoms, s, k + 1, pos + 1)
    ELSE 0

MatchDigits(atoms, s, k, pos, n) ==
    IF n < atoms[k].min THEN 0
    ELSE Backtrack(atoms, s, k, pos, n,
                   IF pos + n - 1 <= Len(s) /\ AllDigits(SubSeq(s, pos, pos + n - 1))
                   THEN MatchEnd(atoms, s, k + 1, pos + n) ELSE 0)

Backtrack(atoms, s, k, pos, n, e) ==
    IF e # 0 THEN e ELSE MatchDigits(atoms, s, k, pos, n - 1)

NoMatch == [index |-> 0, end |-> 0]

MatchAt(atoms, s, i) ==
    IF i = 0 THEN NoMatch ELSE [index |-> i, end |-> MatchEnd(atoms, s, 1, i)]

LeftmostMatch(atoms, s) ==
    MatchAt(atoms, s, LeastOrZero({i \in 1..(Len(s) + 1) : MatchEnd(atoms, s, 1, i) # 0}))

\* RegExp.exec: the leftmost match (NoMatch when there is none).
RegexExec(src, s) == LeftmostMatch(RegexAtoms(src), s)

RegexTest(src, s) == RegexExec(src, s).index # 0

Splice(s, m, replacement) ==
    IF m.index = 0 THEN s
    ELSE SubSeq(s, 1, m.index - 1) \o replacement \o SubSeq(s, m.end, Len(s))

\* string.replace(regexp, replacement) without the g flag: the first match.
StringReplace(s, src, replacement) == Splice(s, RegexExec(src, s), replacement)

(***************************************************************************)
(* The plugin's functions                                                  *)
(***************************************************************************)
\* The date put in front of the filename when the pattern does not match.
ReplaceFirstMatch_noTest(filename, newDate, datePattern) ==
    IF RegexTest(datePattern, filename)
    THEN StringReplace(filename, datePattern, newDate)
    ELSE newDate \o filename

ReplaceFirstMatch(filename, newDate, datePattern) ==
    IF RegexTest(datePattern, filename)
    THEN StringReplace(filename, datePattern, newDate)
    ELSE filename

replaceDateInFilename(filename, newDate, dateFormat) ==
    ReplaceFirstMatch(filename, newDate, createDatePatternFromFormat(dateFormat))

\* null is the invalid moment.
ValidOrNull(parsedDate) == IF parsedDate.valid THEN parsedDate ELSE InvalidMoment

ParseMatch(filename, dateFormat, match) ==
    IF match.index # 0
    THEN ValidOrNull(MomentStrict(SubSeq(filename, match.index, match.end - 1), dateFormat))
    ELSE InvalidMoment

extractDateFromFilename(filename, dateFormat) ==
    ParseMatch(filename, dateFormat,
               RegexExec(createDatePatternFromFormat(dateFormat), filename))

\* The rendered date kept a string even when it is all digits.
NumberOrString_alwaysString(output) == StrVal(output)

\* output.match(/^\d+$/) ? parseInt(output, 10) : output
NumberOrString(output) ==
    IF output # <<>> /\ AllDigits(output)
    THEN IntVal(DecimalValue(output))
    ELSE StrVal(output)

formatFrontmatterDate(date, dateFormat) == NumberOrString(MomentFormat(date, dateFormat))

(***************************************************************************)
(* Paths                                                                   *)
(***************************************************************************)
SplitName(parent, name, dot) ==
    [parent    |-> parent,
     basename  |-> IF dot = 0 THEN name ELSE SubSeq(name, 1, dot - 1),
     extension |-> IF dot = 0 THEN <<>> ELSE Drop(name, dot)]

SplitPath(path, slash) ==
    SplitName(SubSeq(path, 1, slash - 1), Drop(path, slash), LastChar(Drop(path, slash), "."))

\* The TFile the host keeps for a path: parent folder, basename, extension.
FileAt(path) == SplitPath(path, LastChar(path, "/"))

\* file.path
FilePath(f) ==
    f.parent \o <<"/">> \o f.basename
    \o (IF f.extension # <<>> THEN <<".">> \o f.extension ELSE <<>>)

(***************************************************************************)
(* The handlers' decisions                                                 *)
(***************************************************************************)
NoRename == [rename |-> FALSE, newPath |-> <<>>]

\* The rename target built without the extension.
RenameTo_noExtension(f, currentName, newName) ==
    IF newName = currentName THEN NoRename
    ELSE [rename |-> TRUE, newPath |-> f.parent \o <<"/">> \o newName]

\* The second half of updateFilename: no rename when the name is unchanged,
\* else renameFile(file, `${parent.path}/${newName}.${extension}`).
RenameTo(f, currentName, newName) ==
    IF newName = currentName THEN NoRename
    ELSE [rename |-> TRUE,
          newPath |-> f.parent \o <<"/">> \o
                      (IF f.extension # <<>> THEN newName \o <<".">> \o f.extension
                       ELSE newName)]

\* updateFilename up to its await: whether renameFile is called, and with
\* which path.
updateFilename(f, fm, st, eng) ==
    IF Truthy(fm[st.dateProperty])
    THEN RenameTo(f, f.basename,
                  replaceDateInFilename(f.basename,
                      MomentFormat(MomentPermissive(fm[st.dateProperty], eng), st.dateFormat),
                      st.dateFormat))
    ELSE NoRename

\* The property assigned even when it already holds the new value.
AssignIfChanged_always(fm, property, newDate) ==
    [wrote |-> TRUE, fm |-> [fm EXCEPT ![property] = newDate]]

\* if (frontmatter[dateProperty] !== newDate) frontmatter[dateProperty] = newDate
AssignIfChanged(fm, property, newDate) ==
    IF fm[property] # newDate
    THEN [wrote |-> TRUE, fm |-> [fm EXCEPT ![property] = newDate]]
    ELSE [wrote |-> FALSE, fm |-> fm]

\* The function updateFrontmatter hands to processFrontMatter.
frontmatterCallback(fm, date, st) ==
    AssignIfChanged(fm, st.dateProperty, formatFrontmatterDate(date, st.dateFormat))

(***************************************************************************)
(* Values the model draws from                                             *)
(***************************************************************************)
FormatISO   == <<"Y", "Y", "Y", "Y", "-", "M", "M", "-", "D", "D">>
FormatBasic == <<"Y", "Y", "Y", "Y", "M", "M", "D", "D">>
FormatDMY   == <<"D", "D", "-", "M", "M", "-", "Y", "Y", "Y", "Y">>

Formats == {FormatISO, FormatBasic, FormatDMY}

PropertyNames == {"date", "DEFAULT"}

DEFAULT_SETTINGS == [dateProperty |-> "DEFAULT", dateFormat |-> FormatISO]

Engines == {"legacy", "none"}

\* Basenames a user gives a note: with a date in each format (inside other
\* text, or alone) and with digits that are no date.
NewNote == <<"n">>

UserBasenames ==
    { <<"a", "2", "0", "2", "3", "-", "0", "5", "-", "0", "1", "b">>,
      <<"2", "0", "2", "4", "-", "1", "3", "-", "0", "5">>,
      <<"n", "2", "0", "2", "4", "0", "1", "0", "5">>,
      <<"0", "5", "-", "0", "1", "-", "2", "0", "2", "4">> }

\* Values a user gives the date property: empty, or an ISO date (what the
\* host's date widget stores). Numbers get there by the plugin's own writes.
UserValues ==
    { StrVal(<<>>),
      StrVal(<<"2", "0", "2", "4", "-", "1", "1", "-", "3", "0">>) }

Folder == <<"d">>

Markdown == <<"m", "d">>

\* The most operations of the user in one behaviour.
MaxUserOps == 2

(***************************************************************************)
(* State                                                                   *)
(***************************************************************************)
VARIABLES
    settings,     \* DateMirror.settings
    engine,       \* the environment's new Date(string)
    file,         \* the note's TFile: parent, basename, extension
    frontmatter,  \* the note's frontmatter: property name -> value
    events,       \* notifications the host has yet to deliver, oldest first
    running,      \* handler invocations suspended at their await
    last,         \* what the last handler step read and did
    userOps,      \* operations of the user so far
    backlog,      \* the weight of what is pending (Backlog)
    call          \* the last call of a function on its own, and its result

vars == <<settings, engine, file, frontmatter, events, running, last, userOps,
          backlog, call>>

NoStep ==
    [handler |-> "none", origin |-> "none", name |-> <<>>, value |-> Absent,
     after |-> Absent, echoName |-> <<>>, echoValue |-> Absent, acted |-> FALSE,
     newPath |-> <<>>, date |-> InvalidMoment]

NoCall ==
    [fn |-> "none", format |-> <<>>, filename |-> <<>>, date |-> InvalidMoment,
     newDate |-> <<>>, text |-> <<>>, moment |-> InvalidMoment, value |-> Absent]

Event(origin, name, value) == [origin |-> origin, name |-> name, value |-> value]

\* What the host still has to do for the plugin. A handler step takes one
\* item and leaves at most one of the next stage (notification ->
\* updateFilename at renameFile -> updateFrontmatter at processFrontMatter
\* -> notification), so with these weights every handler step changes the
\* backlog.
Backlog(ev, run) ==
    3 * Len(ev) + Len(run)
    + Cardinality({i \in DOMAIN run : run[i].handler = "updateFilename"})

RemoveAt(q, i) == SubSeq(q, 1, i - 1) \o SubSeq(q, i + 1, Len(q))

\* After onload: settings are the saved data over DEFAULT_SETTINGS; the note
\* is a new note without frontmatter; nothing is pending.
Init ==
    /\ settings \in [dateProperty : PropertyNames, dateFormat : Formats]
    /\ engine \in Engines
    /\ file = [parent |-> Folder, basename |-> NewNote, extension |-> Markdown]
    /\ frontmatter = [p \in PropertyNames |-> Absent]
    /\ events = <<>>
    /\ running = <<>>
    /\ last = NoStep
    /\ userOps = 0
    /\ backlog = 0
    /\ call = NoCall

(***************************************************************************)
(* The handlers. The vault calls its 'rename' listeners as it completes a  *)
(* rename, so updateFrontmatter starts in the step that renames the file;  *)
(* the metadata cache calls its 'changed' listeners once it has parsed the *)
(* changed file, some time after the change.                               *)
(***************************************************************************)
Step(handler, origin, f, echoName, echoValue, acted, newPath, date) ==
    [handler |-> handler, origin |-> origin,
     name |-> f.basename, value |-> frontmatter[settings.dateProperty],
     after |-> frontmatter[settings.dateProperty],
     echoName |-> echoName, echoValue |-> echoValue,
     acted |-> acted, newPath |-> newPath, date |-> date]

\* vault 'rename' -> updateFrontmatter(f), which runs to its await of
\* processFrontMatter or, without a date in the basename, returns. q holds
\* the other suspended invocations.
StartUpdateFrontmatter(q, f, origin, echoValue) ==
    \E dateFromFilename \in {extractDateFromFilename(f.basename, settings.dateFormat)} :
      \E me \in {Step("updateFrontmatter", origin, f, f.basename, echoValue,
                      FALSE, <<>>, dateFromFilename)} :
        /\ running' = IF dateFromFilename.valid THEN Append(q, me) ELSE q
        /\ last' = IF dateFromFilename.valid THEN NoStep ELSE me

\* metadataCache 'changed' -> updateFilename(file), which runs to its await
\* of renameFile or returns.
OnChanged ==
    /\ events # <<>>
    /\ \E r \in {updateFilename(file, frontmatter, settings, engine)} :
         \E me \in {Step("updateFilename", Head(events).origin, file, Head(events).name,
                         Head(events).value, r.rename, r.newPath, InvalidMoment)} :
           /\ running' = IF r.rename THEN Append(running, me) ELSE running
           /\ last' = me
    /\ events' = Tail(events)
    /\ backlog' = Backlog(events', running')
    /\ UNCHANGED <<settings, engine, file, frontmatter, userOps, call>>

\* The host completes renameFile(file, newPath): the file has its new path
\* and the vault reports 'rename'. A rename to the path the file already has
\* is refused by the host.
RenameFileDone(i) ==
    /\ running[i].handler = "updateFilename"
    /\ IF running[i].newPath = FilePath(file)
       THEN /\ running' = RemoveAt(running, i)
            /\ last' = NoStep
            /\ UNCHANGED file
       ELSE \E f \in {FileAt(running[i].newPath)} :
              /\ file' = f
              /\ StartUpdateFrontmatter(RemoveAt(running, i), f, "updateFilename",
                                        running[i].value)
    /\ UNCHANGED <<settings, engine, frontmatter, events, userOps, call>>
    /\ backlog' = Backlog(events', running')

\* The host runs the callback of processFrontMatter on the note's frontmatter
\* and saves what it changed; the metadata cache will report the change.
ProcessFrontMatterDone(i) ==
    /\ running[i].handler = "updateFrontmatter"
    /\ \E r \in {frontmatterCallback(frontmatter, running[i].date, settings)} :
           /\ frontmatter' = r.fm
           /\ events' = IF r.wrote
                        THEN Append(events, Event("updateFrontmatter", running[i].name,
                                                  r.fm[settings.dateProperty]))
                        ELSE events
           /\ last' = [running[i] EXCEPT !.value = frontmatter[settings.dateProperty],
                                         !.after = r.fm[settings.dateProperty],
                                         !.acted = r.wrote]
    /\ running' = RemoveAt(running, i)
    /\ backlog' = Backlog(events', running')
    /\ UNCHANGED <<settings, engine, file, userOps, call>>

(***************************************************************************)
(* The user                                                                *)
(***************************************************************************)
\* The user edits the date property; the metadata cache will report it.
\* The user acts when the cache has reported every earlier change (handlers
\* may still be suspended at their awaits).
UserEditFrontmatter(v) ==
    /\ userOps < MaxUserOps
    /\ events = <<>>
    /\ frontmatter["date"] # v
    /\ frontmatter' = [frontmatter EXCEPT !["date"] = v]
    /\ events' = Append(events, Event("user", file.basename, v))
    /\ userOps' = userOps + 1
    /\ last' = NoStep
    /\ UNCHANGED <<settings, engine, file, running, call>>
    /\ backlog' = Backlog(events', running')

\* The user renames the note; the vault reports it.
UserRename(b) ==
    /\ userOps < MaxUserOps
    /\ events = <<>>
    /\ file.basename # b
    /\ file' = [file EXCEPT !.basename = b]
    /\ StartUpdateFrontmatter(running, [file EXCEPT !.basename = b], "user",
                              frontmatter[settings.dateProperty])
    /\ userOps' = userOps + 1
    /\ UNCHANGED <<settings, engine, frontmatter, events, call>>
    /\ backlog' = Backlog(events', running')

Handlers ==
    \/ OnChanged
    \/ \E i \in DOMAIN running : RenameFileDone(i)
    \/ \E i \in DOMAIN running : ProcessFrontMatterDone(i)

Next ==
    \/ \E v \in UserValues : UserEditFrontmatter(v)
    \/ \E b \in UserBasenames : UserRename(b)
    \/ Handlers

Spec == Init /\ [][Next]_vars

(***************************************************************************)
(* One external event and what follows it: the note is any note of the     *)
(* vault, the user acts once, and the host delivers every notification and *)
(* completes every rename and frontmatter write it was asked for.          *)
(***************************************************************************)
InitSettle ==
    /\ settings \in [dateProperty : PropertyNames, dateFormat : Formats]
    /\ engine \in Engines
    /\ \E b \in UserBasenames \cup {NewNote} :
         file = [parent |-> Folder, basename |-> b, extension |-> Markdown]
    /\ \E v \in UserValues :
         frontmatter = [p \in PropertyNames |-> IF p = "date" THEN v ELSE Absent]
    /\ events = <<>>
    /\ running = <<>>
    /\ last = NoStep
    /\ userOps = MaxUserOps - 1
    /\ backlog = 0
    /\ call = NoCall

Quiescent == events = <<>> /\ running = <<>>

\* A step of a handler: something is pending, the step is not the user's,
\* and it takes an item off the backlog (and may leave the next one).
HandlerStep ==
    /\ ~Quiescent
    /\ userOps' = userOps
    /\ backlog' \in {backlog - 3, backlog - 2, backlog - 1, backlog + 2}

\* The host delivers every notification and completes every renameFile and
\* processFrontMatter: while something is pending, a handler step follows.
SpecSettle == InitSettle /\ [][Next]_vars /\ WF_backlog(HandlerStep)

(***************************************************************************)
(* The functions on their own: one call with arguments from bounded sets.  *)
(***************************************************************************)
FormatYMDShort  == <<"Y", "Y", "Y", "Y", "M", "D">>
FormatDMYShort  == <<"D", "-", "M", "-", "Y", "Y", "Y", "Y">>
FormatYYMMDD    == <<"Y", "Y", "-", "M", "M", "-", "D", "D">>
FormatDotted    == <<"Y", "Y", "Y", "Y", ".", "M", ".", "D">>

FnFormats ==
    Formats \cup {FormatYMDShort, FormatDMYShort, FormatYYMMDD, FormatDotted}

FnDates == {MkMoment(y, m, d) : y \in {1950, 1999, 2024}, m \in {1, 11}, d \in {1, 5, 11, 30}}

FnFilenames ==
    UserBasenames \cup
    { NewNote,
      <<"2", "0", "2", "4", ".", "1", ".", "5">>,
      <<"x", "2", "4", "-", "0", "1", "-", "0", "5">> }

FnNewDates == {MomentFormat(MkMoment(2024, 11, 30), f) : f \in FnFormats}

InitFn ==
    /\ settings = DEFAULT_SETTINGS
    /\ engine = "legacy"
    /\ file = [parent |-> Folder, basename |-> NewNote, extension |-> Markdown]
    /\ frontmatter = [p \in PropertyNames |-> Absent]
    /\ events = <<>>
    /\ running = <<>>
    /\ last = NoStep
    /\ userOps = 0
    /\ backlog = 0
    /\ call = NoCall

CallReplaceDateInFilename(filename, newDate, format) ==
    /\ call = NoCall
    /\ call' = [NoCall EXCEPT !.fn = "replaceDateInFilename", !.format = format,
                              !.filename = filename, !.newDate = newDate,
                              !.text = replaceDateInFilename(filename, newDate, format)]
    /\ UNCHANGED <<settings, engine, file, frontmatter, events, running, last, userOps,
                   backlog>>

\* A date rendered under a format, and extractDateFromFilename of the text.
CallExtractRendered(date, format) ==
    /\ call = NoCall
    /\ \E text \in {MomentFormat(date, format)} :
         call' = [NoCall EXCEPT !.fn = "extractDateFromFilename", !.format = format,
                                !.date = date, !.filename = text,
                                !.moment = extractDateFromFilename(text, format)]
    /\ UNCHANGED <<settings, engine, file, frontmatter, events, running, last, userOps,
                   backlog>>

CallFormatFrontmatterDate(date, format) ==
    /\ call = NoCall
    /\ call' = [NoCall EXCEPT !.fn = "formatFrontmatterDate", !.format = format,
                              !.date = date,
                              !.value = formatFrontmatterDate(date, format)]
    /\ UNCHANGED <<settings, engine, file, frontmatter, events, running, last, userOps,
                   backlog>>

NextFn ==
    \/ \E filename \in FnFilenames, newDate \in FnNewDates, format \in FnFormats :
         CallReplaceDateInFilename(filename, newDate, format)
    \/ \E date \in FnDates, format \in FnFormats : CallExtractRendered(date, format)
    \/ \E date \in FnDates, format \in FnFormats : CallFormatFrontmatterDate(date, format)

SpecFn == InitFn /\ [][NextFn]_vars

(***************************************************************************)
(* Properties                                                              *)
(***************************************************************************)
UpdateFrontmatterStep == last.handler = "updateFrontmatter"
UpdateFilenameStep    == last.handler = "updateFilename"

\* C1: when updateFilename has renamed the file because of a frontmatter
\* value, the updateFrontmatter call triggered by that rename does not write
\* the frontmatter again, whatever representation (string or number) the
\* value is stored in, as long as the value is still the one updateFilename
\* read.
C1_RenameEchoWritesNothing ==
    (/\ UpdateFrontmatterStep
     /\ last.origin = "updateFilename"
     /\ last.value = last.echoValue)
    => (~last.acted /\ last.after = last.value)

\* C2: the value the rename handler wrote, read back by updateFilename while
\* neither the value nor the basename has changed, gives the basename the
\* file already has: no rename is requested.
C2_WrittenValueKeepsTheName ==
    (/\ UpdateFilenameStep
     /\ last.origin = "updateFrontmatter"
     /\ last.value = last.echoValue
     /\ last.name = last.echoName)
    => ~last.acted

\* C3: while dateProperty is the default sentinel "DEFAULT", both handlers do
\* nothing: no rename is requested, no frontmatter key is written.
C3_SentinelDisablesHandlers ==
    settings.dateProperty = "DEFAULT"
    => (/\ ~last.acted
        /\ frontmatter["DEFAULT"] = Absent
        /\ \A i \in DOMAIN running : running[i].handler # "updateFilename")

\* C4: no two invocations of the same handler are in progress at the same
\* time.
C4_OneInvocationPerHandler ==
    \A i, j \in DOMAIN running :
      i # j => running[i].handler # running[j].handler

\* C5: updateFrontmatter assigns the date property exactly when a valid date
\* is extracted from the basename and its formatted value differs from the
\* stored one; the value assigned is the formatted value; otherwise the
\* frontmatter is left as it was.
C5_WritesExactlyWhenDifferent ==
    UpdateFrontmatterStep =>
      LET date == extractDateFromFilename(last.name, settings.dateFormat)
          newDate == formatFrontmatterDate(date, settings.dateFormat)
      IN  /\ last.acted <=> (date.valid /\ newDate # last.value)
          /\ last.after = (IF last.acted THEN newDate ELSE last.value)
          /\ last.name = <<"2", "0", "2", "4", "-", "1", "3", "-", "0", "5">>
             => ~last.acted

\* C5 witness: updateFrontmatter has written the date property.
C5_HasWritten == UpdateFrontmatterStep /\ last.acted /\ last.after # last.value

PresentAndNonEmpty(v) == v # Absent /\ v # StrVal(<<>>)

\* C6: updateFilename requests a rename exactly when the date property is
\* present and non-empty and the basename with its date replaced differs
\* from the current basename; the target is <new basename>.<extension> in
\* the same parent folder.
C6_RenamesExactlyWhenDifferent ==
    UpdateFilenameStep =>
      LET newName ==
            replaceDateInFilename(last.name,
                MomentFormat(MomentPermissive(last.value, engine), settings.dateFormat),
                settings.dateFormat)
      IN  /\ last.acted <=> (PresentAndNonEmpty(last.value) /\ newName # last.name)
          /\ last.acted =>
               last.newPath = Folder \o <<"/">> \o newName \o <<".">> \o Markdown

\* C6 witness: updateFilename has requested a rename.
C6_HasRenamed == UpdateFilenameStep /\ last.acted /\ PresentAndNonEmpty(last.value)

\* C7: replaceDateInFilename returns the filename unchanged when the
\* filename holds no match of the date pattern of the format.
C7_UnchangedWithoutMatch ==
    (/\ call.fn = "replaceDateInFilename"
     /\ ~RegexTest(createDatePatternFromFormat(call.format), call.filename))
    => call.text = call.filename

\* C7 witness: replaceDateInFilename was called on a dated filename whose
\* date is not in the shape of the format, and returned it as it was.
C7_CalledWithoutMatch ==
    /\ call.fn = "replaceDateInFilename"
    /\ call.format = FormatISO
    /\ call.filename = <<"0", "5", "-", "0", "1", "-", "2", "0", "2", "4">>
    /\ call.text = call.filename

HasToken(format, toks) ==
    \E i \in DOMAIN FormatTokens(format) : FormatTokens(format)[i] \in toks

\* The format holds the date: year, month and day tokens, and with a
\* two-digit year only the years moment reads back (1969..2068).
Expressible(date, format) ==
    /\ HasToken(format, {TokYYYY, TokYY})
    /\ HasToken(format, {TokMM, TokM})
    /\ HasToken(format, {TokDD, TokD})
    /\ HasToken(format, {TokYYYY}) \/ date.y \in 1969..2068

\* No one-or-two-digit token (M, D) is directly followed by another token.
VariableWidthSeparated(format) ==
    \A i \in 1..(Len(FormatTokens(format)) - 1) :
      FormatTokens(format)[i] \in {TokM, TokD}
      => FormatTokens(format)[i + 1] \notin DateTokens

\* C8 as stated: for every format F built from the supported tokens and
\* every date d that F holds, extractDateFromFilename(render(d, F), F) = d.
C8_RoundTrip ==
    (/\ call.fn = "extractDateFromFilename"
     /\ Expressible(call.date, call.format))
    => call.moment = call.date

\* C8 amended: the round trip extractDateFromFilename(render(d, F), F) = d
\* holds for every format F in which no M or D token is directly followed
\* by another date token, and every date d that F holds.
C8_RoundTripSeparated ==
    (/\ call.fn = "extractDateFromFilename"
     /\ Expressible(call.date, call.format)
     /\ VariableWidthSeparated(call.format))
    => call.moment = call.date

\* C8 witness: a date rendered with one-digit month and day between
\* separators is extracted again.
C8_ShortTokensRoundTrip ==
    /\ call.fn = "extractDateFromFilename"
    /\ call.format = FormatDMYShort
    /\ call.date = MkMoment(2024, 1, 5)
    /\ call.filename = <<"5", "-", "1", "-", "2", "0", "2", "4">>
    /\ call.moment = call.date

\* C9: formatFrontmatterDate returns an integer exactly when the rendered
\* text is all digits (format YYYYMMDD, 2024-01-05 gives the number
\* 20240105), and the rendered text as a string otherwise.
C9_IntegerIffAllDigits ==
    call.fn = "formatFrontmatterDate" =>
      LET output == MomentFormat(call.date, call.format)
      IN  /\ call.value.k = "int" <=> (output # <<>> /\ AllDigits(output))
          /\ call.value.k = "int" => call.value.n = DecimalValue(output)
          /\ call.value.k # "int" => call.value = StrVal(output)
          /\ (call.format = FormatBasic /\ call.date = MkMoment(2024, 1, 5))
             => call.value = IntVal(20240105)

\* C9 witness: 2024-01-05 under YYYYMMDD came out as the number 20240105.
C9_IntegerReturned ==
    /\ call.fn = "formatFrontmatterDate"
    /\ call.format = FormatBasic
    /\ call.date = MkMoment(2024, 1, 5)
    /\ call.value = IntVal(20240105)

\* C10: after an external event the handlers settle: eventually no
\* notification is pending and no handler is in progress, for good.
C10_Settles == <>[]Quiescent

=============================================================================
